---- MODULE Spec2Model ----
(***************************************************************************)
(* A model of helm-patchdiff (src/main.go): main, createPatchset,          *)
(* prepareUpgrade and createPatch, together with the cluster and the       *)
(* release storage they read.                                              *)
(*                                                                         *)
(* Three specifications share the definitions:                             *)
(*   Spec         one run of main/createPatchset against a cluster that    *)
(*                other clients change while the run is under way;         *)
(*   SpecUpgrade  prepareUpgrade over every bounded release history;       *)
(*   SpecPatch    createPatch over every bounded (old, new, live) triple.  *)
(***************************************************************************)
EXTENDS Naturals, Sequences, FiniteSets

VARIABLES
    pc,        \* position of the run: "main", "create", "visit", "patch", "return", "printed", "fatal"
    target,    \* kube.ResourceList built from the target manifest (main.go:101)
    original,  \* kube.ResourceList built from the original manifest (main.go:97)
    cluster,   \* the live objects of the cluster, by resource name
    i,         \* index in target of the resource target.Visit is at
    patches,   \* the local `patches` of createPatchset (main.go:81)
    err,       \* the error of the run, None while there is none
    ret,       \* the string createPatchset returns (main.go:132)
    stdout,    \* what fmt.Println wrote (main.go:67)
    emitted,   \* history: for each element of patches, the index in target it was made for
    obs,       \* history: for each index in target, the answers of its live lookups, in order
    used,      \* history: for each element of patches, the lookup answer createPatch computed it from
    changes,   \* number of external changes of the cluster so far
    history,   \* the release records stored under the release name, oldest first
    upIn,      \* the collaborators' answers prepareUpgrade met
    upOut,     \* what prepareUpgrade returned and the render options it built
    pIn,       \* the arguments and lookup answer of one createPatch call
    pOut       \* what that createPatch call returned

vars == <<pc, target, original, cluster, i, patches, err, ret, stdout,
          emitted, obs, used, changes, history, upIn, upOut, pIn, pOut>>

runVars == <<pc, target, original, cluster, i, patches, err, ret, stdout,
             emitted, obs, used, changes>>
upVars == <<history, upIn, upOut>>
patchVars == <<pIn, pOut>>

(***************************************************************************)
(* Bounds of the model.                                                    *)
(***************************************************************************)
MaxTarget == 2
MaxChanges == 1
MaxHistory == 3

None == "nil"

(***************************************************************************)
(* JSON documents: a serialized object is a map from field to value; a     *)
(* field the document does not hold is Absent. In a patch, Null is the     *)
(* JSON null that deletes the field.                                       *)
(***************************************************************************)
Fields == {"f", "g"}
Vals == {"v1", "v2"}
Absent == "absent"
Null == "null"
Docs == [Fields -> Vals \cup {Absent}]
EmptyDoc == [x \in Fields |-> Absent]

(***************************************************************************)
(* Live lookup: resource.Helper.Get (main.go:112, main.go:293). The        *)
(* cluster holds, per resource name, whether the object exists and its     *)
(* body. A lookup answers Found with the body, NotFound, or Error (any     *)
(* failure that apierrors.IsNotFound does not recognise: forbidden,        *)
(* transport failure, ...).                                                *)
(***************************************************************************)
Ids == {"a", "b", "c"}
LiveDocs == {[f |-> "v1", g |-> Absent], [f |-> "v1", g |-> "v2"]}
NoObject == [exists |-> FALSE, obj |-> EmptyDoc]
LiveObject(d) == [exists |-> TRUE, obj |-> d]

Found(d) == [kind |-> "Found", obj |-> d]
NotFound == [kind |-> "NotFound", obj |-> EmptyDoc]
GetError == [kind |-> "Error", obj |-> EmptyDoc]
GetResults == {Found(d) : d \in Docs} \cup {NotFound, GetError}

HelperGet(cl, name, fails) ==
    IF fails THEN GetError
    ELSE IF cl[name].exists THEN Found(cl[name].obj)
    ELSE NotFound

IsNotFound(r) == r.kind = "NotFound"

(***************************************************************************)
(* jsonpatch.CreateMergePatch(oldData, newData) (main.go:318): the RFC     *)
(* 7386 merge patch from old to new. A key whose value differs, or that    *)
(* only new holds, carries new's value; a key only old holds carries null. *)
(***************************************************************************)
CreateMergePatch(old, new) ==
    [x \in Fields |->
        IF new[x] = old[x] THEN Absent
        ELSE IF new[x] = Absent THEN Null
        ELSE new[x]]

(***************************************************************************)
(* strategicpatch.CreateThreeWayMergePatch(original, modified, current,    *)
(* patchMeta, overwrite = true) (main.go:327), k8s.io/apimachinery         *)
(* v0.18.8 (go.mod): the patch is the difference from CURRENT to modified  *)
(* without deletions, merged over the deletions from original to modified. *)
(* With overwrite = true no conflict is raised.                            *)
(***************************************************************************)
DeltaIgnoringDeletions(current, modified) ==
    [x \in Fields |->
        IF modified[x] # Absent /\ modified[x] # current[x] THEN modified[x]
        ELSE Absent]

DeletionsOnly(orig, modified) ==
    [x \in Fields |->
        IF orig[x] # Absent /\ modified[x] = Absent THEN Null ELSE Absent]

\* Mutant: the delta is taken from the original, not from the live object.
CreateThreeWayMergePatchFromOriginal(orig, modified, current) ==
    LET delta == DeltaIgnoringDeletions(orig, modified)
        deletions == DeletionsOnly(orig, modified)
    IN  [x \in Fields |-> IF delta[x] # Absent THEN delta[x] ELSE deletions[x]]

CreateThreeWayMergePatch(orig, modified, current) ==
    LET delta == DeltaIgnoringDeletions(current, modified)
        deletions == DeletionsOnly(orig, modified)
    IN  [x \in Fields |-> IF delta[x] # Absent THEN delta[x] ELSE deletions[x]]

(***************************************************************************)
(* createPatch (main.go:281-329). `old` is the serialized original object, *)
(* `tgt` the target resource.Info (its Object and the type kube.AsVersioned*)
(* gives it), `get` the answer of the lookup at main.go:293 and `fault`    *)
(* the step of createPatch that fails, if any.                             *)
(***************************************************************************)
Classes == {"Typed", "Unstructured", "CRD"}
Faults == {"none", "marshalOld", "marshalNew", "marshalLive", "patchMeta"}
StrategicMergePatchType == "application/strategic-merge-patch+json"
MergePatchType == "application/merge-patch+json"

PatchFail(e) == [patch |-> EmptyDoc, ptype |-> StrategicMergePatchType, err |-> e]

\* createPatch reaches its lookup (main.go:293) unless a marshal before it failed.
CreatePatchLooksUp(fault) == fault \notin {"marshalOld", "marshalNew"}

\* json.Marshal(currentObj): a nil object marshals to "null", which the
\* three-way merge reads as the empty document (main.go:298-299).
MarshalLive(get) == IF get.kind = "Found" THEN get.obj ELSE EmptyDoc

\* main.go:311-316
IsSchemaless(versioned) == versioned = "Unstructured" \/ versioned = "CRD"

\* Mutant: the schemaless patch is taken from the live object to the target.
CreatePatchLiveMerge(old, tgt, get, fault) ==
    IF fault = "marshalOld" THEN PatchFail("serializing current configuration")
    ELSE IF fault = "marshalNew" THEN PatchFail("serializing target configuration")
    ELSE IF get.kind = "Error" THEN PatchFail("unable to get data for current object")
    ELSE IF fault = "marshalLive" THEN PatchFail("serializing live configuration")
    ELSE IF IsSchemaless(tgt.Versioned)
         THEN [patch |-> CreateMergePatch(MarshalLive(get), tgt.Object),
               ptype |-> MergePatchType, err |-> None]
    ELSE IF fault = "patchMeta" THEN PatchFail("unable to create patch metadata from object")
    ELSE [patch |-> CreateThreeWayMergePatch(old, tgt.Object, MarshalLive(get)),
          ptype |-> StrategicMergePatchType, err |-> None]

CreatePatch(old, tgt, get, fault) ==
    IF fault = "marshalOld" THEN PatchFail("serializing current configuration")
    ELSE IF fault = "marshalNew" THEN PatchFail("serializing target configuration")
    ELSE IF get.kind = "Error" THEN PatchFail("unable to get data for current object")
    ELSE IF fault = "marshalLive" THEN PatchFail("serializing live configuration")
    ELSE IF IsSchemaless(tgt.Versioned)
         THEN [patch |-> CreateMergePatch(old, tgt.Object),
               ptype |-> MergePatchType, err |-> None]
    ELSE IF fault = "patchMeta" THEN PatchFail("unable to create patch metadata from object")
    ELSE [patch |-> CreateThreeWayMergePatch(old, tgt.Object, MarshalLive(get)),
          ptype |-> StrategicMergePatchType, err |-> None]


(***************************************************************************)
(* Release storage. A release record carries its revision (Version), its   *)
(* status, its namespace and its manifest; the history of a name is kept   *)
(* oldest first and revisions are 1, 2, ... A manifest is identified by    *)
(* the revision that recorded it.                                          *)
(***************************************************************************)
StatusDeployed == "deployed"
StatusFailed == "failed"
StatusSuperseded == "superseded"
StatusPendingUpgrade == "pending-upgrade"
Statuses == {StatusDeployed, StatusFailed, StatusSuperseded, StatusPendingUpgrade}
Namespaces == {"ns1", "ns2"}

NoRelease == [Version |-> 0, Status |-> "", Namespace |-> "", Manifest |-> 0]
Release(v, st, ns) == [Version |-> v, Status |-> st, Namespace |-> ns, Manifest |-> v]

Histories ==
    UNION {
        {[k \in 1..n |-> Release(k, st[k], ns[k])] :
            st \in [1..n -> Statuses], ns \in [1..n -> Namespaces]} :
        n \in 0..MaxHistory}

MaxOf(S) == CHOOSE x \in S : \A y \in S : y <= x

\* c.Releases.Last(name) (main.go:141): the record of the highest revision,
\* driver.ErrReleaseNotFound when the name has none.
ReleasesLast(h, fails) ==
    IF fails THEN [err |-> "ErrStorage", rel |-> NoRelease]
    ELSE IF Len(h) = 0 THEN [err |-> "ErrReleaseNotFound", rel |-> NoRelease]
    ELSE [err |-> None, rel |-> h[Len(h)]]

\* c.Releases.Deployed(name) (main.go:156): the record of the highest revision
\* among those with status deployed, driver.ErrNoDeployedReleases when none is.
ReleasesDeployed(h, fails) ==
    LET dep == {k \in 1..Len(h) : h[k].Status = StatusDeployed}
    IN  IF fails THEN [err |-> "ErrStorage", rel |-> NoRelease]
        ELSE IF dep = {} THEN [err |-> "ErrNoDeployedReleases", rel |-> NoRelease]
        ELSE [err |-> None, rel |-> h[MaxOf(dep)]]

(***************************************************************************)
(* prepareUpgrade (main.go:135-196). `in` holds what the collaborators     *)
(* answer: lastFails / deployedFails (a storage failure of the lookup) and *)
(* stage, the later step that fails, if any: "deps" (main.go:167), "caps"  *)
(* (main.go:182), "values" (main.go:185), "render" (main.go:190). The      *)
(* chart main passes is never nil (main.go:58-61).                         *)
(* The result is what the function returns (err, original) and, as         *)
(* history, the ReleaseOptions it built (main.go:175-180), the record it   *)
(* selected and the number of Deployed lookups it made.                    *)
(***************************************************************************)
Stages == {"none", "deps", "caps", "values", "render"}
UpgradeInputs == [lastFails : BOOLEAN, deployedFails : BOOLEAN, stage : Stages]
NoOptions == [Namespace |-> "", Revision |-> 0, IsUpgrade |-> FALSE]

UpgradeFail(e, cur, n, opts) ==
    [err |-> e, original |-> 0, current |-> cur, deployedLookups |-> n,
     options |-> opts, rendered |-> FALSE]

\* Mutant: the revision counts from the baseline record.
NextRevisionOfCurrent(lastRelease, currentRelease) == currentRelease.Version + 1

\* main.go:173
NextRevision(lastRelease, currentRelease) == lastRelease.Version + 1

\* Mutant: the last record is the baseline whatever its status.
SelectLastAlways(lastRelease, dep) ==
    [err |-> None, rel |-> lastRelease, lookups |-> 0]

\* main.go:151-165: the record used as the baseline

SelectCurrentRelease(lastRelease, dep) ==
    IF lastRelease.Status = StatusDeployed
    THEN [err |-> None, rel |-> lastRelease, lookups |-> 0]
    ELSE IF dep.err = None
    THEN [err |-> None, rel |-> dep.rel, lookups |-> 1]
    ELSE IF dep.err = "ErrNoDeployedReleases"
            /\ (lastRelease.Status = StatusFailed \/ lastRelease.Status = StatusSuperseded)
    THEN [err |-> None, rel |-> lastRelease, lookups |-> 1]
    ELSE [err |-> dep.err, rel |-> NoRelease, lookups |-> 1]

PrepareUpgrade(h, in) ==
    LET last == ReleasesLast(h, in.lastFails)
    IN  IF last.err # None
        THEN UpgradeFail(IF last.err = "ErrReleaseNotFound"
                         THEN "ErrNoDeployedReleases" ELSE last.err,
                         NoRelease, 0, NoOptions)
        ELSE
        LET lastRelease == last.rel
            sel == SelectCurrentRelease(lastRelease, ReleasesDeployed(h, in.deployedFails))
            currentRelease == sel.rel
            options == [Namespace |-> currentRelease.Namespace,
                        Revision |-> NextRevision(lastRelease, currentRelease),
                        IsUpgrade |-> TRUE]
        IN  IF sel.err # None
            THEN UpgradeFail(sel.err, NoRelease, sel.lookups, NoOptions)
            ELSE IF in.stage = "deps"
            THEN UpgradeFail("ErrDependencies", currentRelease, sel.lookups, NoOptions)
            ELSE IF in.stage = "caps"
            THEN UpgradeFail("ErrCapabilities", currentRelease, sel.lookups, options)
            ELSE IF in.stage = "values"
            THEN UpgradeFail("ErrRenderValues", currentRelease, sel.lookups, options)
            ELSE IF in.stage = "render"
            THEN UpgradeFail("ErrRender", currentRelease, sel.lookups, options)
            ELSE [err |-> None, original |-> currentRelease.Manifest,
                  current |-> currentRelease, deployedLookups |-> sel.lookups,
                  options |-> options, rendered |-> TRUE]

NoUpgradeInput == [lastFails |-> FALSE, deployedFails |-> FALSE, stage |-> "idle"]
NoUpgradeOutput == UpgradeFail("not called", NoRelease, 0, NoOptions)
NoPatchInput ==
    [old |-> EmptyDoc, tgt |-> [Name |-> "", Object |-> EmptyDoc, Versioned |-> ""],
     get |-> NotFound, fault |-> "idle"]
NoPatchOutput == PatchFail("not called")


(***************************************************************************)
(* The manifests of one run. Each resource name has one target body, one   *)
(* original body and one type; a run's target manifest is any list of at   *)
(* most MaxTarget distinct names, its original manifest any set of names.  *)
(* kube.Client.Build (main.go:97, main.go:101) turns them into the lists   *)
(* of resource.Info modelled here.                                         *)
(***************************************************************************)
VersionedOf(name) ==
    IF name = "a" THEN "Typed" ELSE IF name = "b" THEN "Unstructured" ELSE "CRD"
TargetObject(name) ==
    IF name = "a" THEN [f |-> "v2", g |-> Absent]
    ELSE IF name = "b" THEN [f |-> "v1", g |-> "v1"]
    ELSE [f |-> "v1", g |-> Absent]
OriginalObject(name) ==
    IF name = "a" THEN [f |-> "v1", g |-> Absent] ELSE [f |-> "v1", g |-> "v2"]

TargetInfo(name) ==
    [Name |-> name, Object |-> TargetObject(name), Versioned |-> VersionedOf(name)]
OriginalInfo(name) == [Name |-> name, Object |-> OriginalObject(name)]

NameLists ==
    UNION {{s \in [1..n -> Ids] : \A j, k \in 1..n : j # k => s[j] # s[k]} :
           n \in 0..MaxTarget}
TargetLists == {[k \in 1..Len(s) |-> TargetInfo(s[k])] : s \in NameLists}
OriginalLists == {{OriginalInfo(n) : n \in S} : S \in SUBSET Ids}
Clusters == [Ids -> {NoObject} \cup {LiveObject(d) : d \in LiveDocs}]

\* original.Get(info) (main.go:117): the original resource of the same
\* identity, nil when there is none.
OriginalGet(orig, info) ==
    IF \E o \in orig : o.Name = info.Name
    THEN [found |-> TRUE, Object |-> (CHOOSE o \in orig : o.Name = info.Name).Object]
    ELSE [found |-> FALSE, Object |-> EmptyDoc]

(***************************************************************************)
(* fmt.Sprintf("[%s]", strings.Join(patches, ",")) (main.go:132): the      *)
(* output as a sequence of tokens, a bracket, a comma or a patch document. *)
(***************************************************************************)
LBracket == [t |-> "[", d |-> EmptyDoc]
RBracket == [t |-> "]", d |-> EmptyDoc]
Comma == [t |-> ",", d |-> EmptyDoc]
DocToken(p) == [t |-> "doc", d |-> p]

RECURSIVE Join(_)
Join(ps) ==
    IF Len(ps) = 0 THEN <<>>
    ELSE IF Len(ps) = 1 THEN <<DocToken(ps[1])>>
    ELSE <<DocToken(ps[1]), Comma>> \o Join(Tail(ps))

Format(ps) == <<LBracket>> \o Join(ps) \o <<RBracket>>

\* Mutant: the new entry goes first.
PrependPatch(ps, p) == <<p>> \o ps

\* patches = append(patches, string(patch)) (main.go:128)
AppendPatch(ps, p) == Append(ps, p)

(***************************************************************************)
(* validateReleaseName (main.go:331-342). A name is its length and whether *)
(* it matches action.ValidName.                                            *)
(***************************************************************************)
MaxReleaseNameLen == 53
ReleaseNames ==
    {[len |-> 0, matches |-> FALSE]} \cup [len : {1, 53, 54}, matches : BOOLEAN]

ValidateReleaseName(name) ==
    IF name.len = 0 THEN "no release name set"
    ELSE IF name.len > MaxReleaseNameLen \/ ~name.matches THEN "invalid release name"
    ELSE None

(***************************************************************************)
(* What the visitor of target.Visit does with a resource once its first    *)
(* lookup has answered (main.go:112-120): "skip" it, fail because the      *)
(* original manifest does not hold it ("missing"), or go on to createPatch.*)
(***************************************************************************)
\* Mutant: a resource the original manifest lacks is patched from a zero value.
VisitDecisionZeroOriginal(r, o) ==
    IF IsNotFound(r) THEN "skip" ELSE "patch"

VisitDecision(r, o) ==
    IF IsNotFound(r) THEN "skip"
    ELSE IF ~o.found THEN "missing"
    ELSE "patch"

\* The errors prepareUpgrade can return, over every history and collaborator answer.
UpgradeErrors == {PrepareUpgrade(h, in).err : h \in Histories, in \in UpgradeInputs}

(***************************************************************************)
(* The run: main (main.go:45-68) and createPatchset (main.go:80-133).      *)
(***************************************************************************)
RunIdle ==
    /\ pc = "main" /\ target = <<>> /\ original = {} /\ i = 0
    /\ patches = <<>> /\ err = None /\ ret = <<>> /\ stdout = <<>>
    /\ emitted = <<>> /\ obs = <<>> /\ used = <<>> /\ changes = 0

Init ==
    /\ RunIdle
    /\ cluster \in Clusters
    /\ history = <<>> /\ upIn = NoUpgradeInput /\ upOut = NoUpgradeOutput
    /\ pIn = NoPatchInput /\ pOut = NoPatchOutput

\* main.go:46-61: validateReleaseName, MergeValues, loader.Load; log.Fatal on error.
Main ==
    /\ pc = "main"
    /\ \E name \in ReleaseNames, stage \in {"none", "values", "chart"} :
          LET e == IF ValidateReleaseName(name) # None THEN ValidateReleaseName(name)
                   ELSE IF stage = "values" THEN "ErrMergeValues"
                   ELSE IF stage = "chart" THEN "ErrLoadChart"
                   ELSE None
          IN  /\ err' = e
              /\ pc' = IF e # None THEN "fatal" ELSE "create"
    /\ UNCHANGED <<target, original, cluster, i, patches, ret, stdout,
                   emitted, obs, used, changes>>
    /\ UNCHANGED <<upVars, patchVars>>

\* main.go:81-104: actionConfig.Init (log.Fatalf on error), IsReachable,
\* prepareUpgrade, Build of the original and of the target manifest.
CreateBegin ==
    /\ pc = "create"
    /\ \E stage \in {"none", "init", "unreachable", "buildOriginal", "buildTarget"},
          ue \in UpgradeErrors, tl \in TargetLists, ol \in OriginalLists :
          LET e == IF stage = "init" THEN "ErrInit"
                   ELSE IF stage = "unreachable" THEN "ErrUnreachable"
                   ELSE IF ue # None THEN ue
                   ELSE IF stage = "buildOriginal"
                   THEN "unable to build kubernetes objects from original release manifest"
                   ELSE IF stage = "buildTarget"
                   THEN "unable to build kubernetes objects from new release manifest"
                   ELSE None
          IN  /\ err' = e
              /\ pc' = IF stage = "init" THEN "fatal"
                       ELSE IF e # None THEN "returned" ELSE "visit"
              /\ target' = IF e = None THEN tl ELSE <<>>
              /\ original' = IF e = None THEN ol ELSE {}
              /\ i' = IF e = None THEN 1 ELSE 0
              /\ obs' = IF e = None THEN [k \in 1..Len(tl) |-> <<>>] ELSE <<>>
    /\ UNCHANGED <<cluster, patches, ret, stdout, emitted, used, changes>>
    /\ UNCHANGED <<upVars, patchVars>>

\* main.go:106-120: the visitor's first lookup of target[i] and what follows from it.
VisitLookup ==
    /\ pc = "visit" /\ err = None /\ i <= Len(target)
    /\ \E fails \in BOOLEAN :
          LET info == target[i]
              r == HelperGet(cluster, info.Name, fails)
              d == VisitDecision(r, OriginalGet(original, info))
          IN  /\ obs' = [obs EXCEPT ![i] = Append(@, r)]
              /\ i' = IF d = "skip" THEN i + 1 ELSE i
              /\ err' = IF d = "missing" THEN "could not find" ELSE None
              /\ pc' = IF d = "patch" THEN "patch" ELSE "visit"
    /\ UNCHANGED <<target, original, cluster, patches, ret, stdout, emitted, used, changes>>
    /\ UNCHANGED <<upVars, patchVars>>

\* main.go:122-129 with createPatch (main.go:281-329), its lookup included.
VisitPatch ==
    /\ pc = "patch"
    /\ \E fails \in BOOLEAN, fault \in Faults :
          LET info == target[i]
              o == OriginalGet(original, info)
              r == HelperGet(cluster, info.Name, fails)
              res == CreatePatch(o.Object, info, r, fault)
          IN  /\ obs' = IF CreatePatchLooksUp(fault)
                        THEN [obs EXCEPT ![i] = Append(@, r)] ELSE obs
              /\ err' = res.err
              /\ patches' = IF res.err = None THEN AppendPatch(patches, res.patch) ELSE patches
              /\ emitted' = IF res.err = None THEN Append(emitted, i) ELSE emitted
              /\ used' = IF res.err = None THEN Append(used, r) ELSE used
              /\ i' = IF res.err = None THEN i + 1 ELSE i
              /\ pc' = "visit"
    /\ UNCHANGED <<target, original, cluster, ret, stdout, changes>>
    /\ UNCHANGED <<upVars, patchVars>>

\* main.go:130-132: Visit stops at the first error or after the last resource;
\* createPatchset returns the formatted patches and the error.
VisitEnd ==
    /\ pc = "visit" /\ (err # None \/ i > Len(target))
    /\ ret' = Format(patches)
    /\ pc' = "returned"
    /\ UNCHANGED <<target, original, cluster, i, patches, err, stdout,
                   emitted, obs, used, changes>>
    /\ UNCHANGED <<upVars, patchVars>>

\* main.go:63-68: log.Fatal(err), or fmt.Println(patchset).
MainFinish ==
    /\ pc = "returned"
    /\ pc' = IF err # None THEN "fatal" ELSE "printed"
    /\ stdout' = IF err # None THEN stdout ELSE Append(stdout, ret)
    /\ UNCHANGED <<target, original, cluster, i, patches, err, ret,
                   emitted, obs, used, changes>>
    /\ UNCHANGED <<upVars, patchVars>>

(***************************************************************************)
(* The cluster's other clients: while the run visits the target resources, *)
(* an object of the target manifest is deleted, created or rewritten.      *)
(***************************************************************************)
Visiting == pc \in {"visit", "patch"} /\ err = None /\ i <= Len(target)
TargetNames == {target[k].Name : k \in 1..Len(target)}

ClusterDelete ==
    /\ Visiting /\ changes < MaxChanges
    /\ \E n \in TargetNames :
          /\ cluster[n].exists
          /\ cluster' = [cluster EXCEPT ![n] = NoObject]
    /\ changes' = changes + 1
    /\ UNCHANGED <<pc, target, original, i, patches, err, ret, stdout, emitted, obs, used>>
    /\ UNCHANGED <<upVars, patchVars>>

ClusterApply ==
    /\ Visiting /\ changes < MaxChanges
    /\ \E n \in TargetNames, d \in LiveDocs :
          /\ cluster[n] # LiveObject(d)
          /\ cluster' = [cluster EXCEPT ![n] = LiveObject(d)]
    /\ changes' = changes + 1
    /\ UNCHANGED <<pc, target, original, i, patches, err, ret, stdout, emitted, obs, used>>
    /\ UNCHANGED <<upVars, patchVars>>

Next ==
    \/ Main
    \/ CreateBegin
    \/ VisitLookup
    \/ VisitPatch
    \/ VisitEnd
    \/ MainFinish
    \/ ClusterDelete
    \/ ClusterApply

Spec == Init /\ [][Next]_vars

(***************************************************************************)
(* prepareUpgrade alone, over every release history of at most MaxHistory  *)
(* records.                                                                *)
(***************************************************************************)
InitUpgrade ==
    /\ RunIdle
    /\ cluster = [n \in Ids |-> NoObject]
    /\ history \in Histories
    /\ upIn = NoUpgradeInput /\ upOut = NoUpgradeOutput
    /\ pIn = NoPatchInput /\ pOut = NoPatchOutput

PrepareUpgradeCall ==
    /\ upIn = NoUpgradeInput
    /\ \E in \in UpgradeInputs :
          /\ upIn' = in
          /\ upOut' = PrepareUpgrade(history, in)
    /\ UNCHANGED <<history, runVars, patchVars>>

NextUpgrade == PrepareUpgradeCall

SpecUpgrade == InitUpgrade /\ [][NextUpgrade]_vars

(***************************************************************************)
(* createPatch alone, over every original body, target body and type, and  *)
(* every answer of its lookup.                                             *)
(***************************************************************************)
PatchInputs ==
    [old : Docs,
     tgt : [Name : {"a"}, Object : Docs, Versioned : Classes],
     get : GetResults,
     fault : Faults]

InitPatch ==
    /\ RunIdle
    /\ cluster = [n \in Ids |-> NoObject]
    /\ history = <<>> /\ upIn = NoUpgradeInput /\ upOut = NoUpgradeOutput
    /\ pIn \in PatchInputs
    /\ pOut = NoPatchOutput

CreatePatchCall ==
    /\ pOut = NoPatchOutput
    /\ pOut' = CreatePatch(pIn.old, pIn.tgt, pIn.get, pIn.fault)
    /\ UNCHANGED <<pIn, runVars, upVars>>

NextPatch == CreatePatchCall

SpecPatch == InitPatch /\ [][NextPatch]_vars


(***************************************************************************)
(* Properties.                                                             *)
(***************************************************************************)
Range(s) == {s[k] : k \in DOMAIN s}
Visited == DOMAIN obs
AnsweredNotFound(k) == \E j \in DOMAIN obs[k] : obs[k][j].kind = "NotFound"
AnsweredError(k) == \E j \in DOMAIN obs[k] : obs[k][j].kind = "Error"
HasOriginal(k) == OriginalGet(original, target[k]).found
FirstAnswer(k) == obs[k][1].kind

\* C1 (as claimed): in a run that succeeds, a target resource one of whose live
\* lookups answered NotFound has no patch entry, and the patchset holds as many
\* entries as there are target resources none of whose lookups answered NotFound,
\* whatever the cluster's other clients did during the run. It is stated for the
\* runs in which every lookup answers Found or NotFound, so that what refutes it
\* is a change of the cluster during the run and not a failed lookup (C2).
C1_NoEntryWithoutLive ==
    (pc = "printed" /\ \A k \in Visited : ~AnsweredError(k)) =>
        /\ \A k \in Visited : AnsweredNotFound(k) => k \notin Range(emitted)
        /\ Len(patches) = Cardinality({k \in Visited : ~AnsweredNotFound(k)})

\* C2 (as claimed): once a live lookup of a target resource has failed with an
\* error other than NotFound, createPatchset returns a non-nil error, nothing is
\* printed, and no patch entry rests on the failed lookup.
C2_LookupErrorIsFatal ==
    \A k \in Visited :
        AnsweredError(k) =>
            /\ pc # "printed"
            /\ (pc \in {"returned", "fatal"} => err # None)
            /\ \A m \in DOMAIN emitted : emitted[m] = k => used[m].kind # "Error"

C6_CompleteOrNothing ==
    pc \in {"printed", "fatal"} =>
        \/ /\ pc = "printed" /\ err = None
           /\ i > Len(target)
           /\ stdout = <<Format(patches)>>
           /\ \A k \in Visited : ~AnsweredError(k)
        \/ /\ pc = "fatal" /\ err # None
           /\ stdout = <<>>

\* The output half of C6 alone: a run that has ended either printed the complete
\* patchset and has no error, or printed nothing and has one.
OutputCompleteOrNothing ==
    pc \in {"printed", "fatal"} =>
        \/ pc = "printed" /\ err = None /\ i > Len(target) /\ stdout = <<Format(patches)>>
        \/ pc = "fatal" /\ err # None /\ stdout = <<>>

\* C7: at every point of the visit the patch entries are an order-preserving
\* subsequence of the target manifest: every entry was made for one target
\* resource the visit has reached, from that resource's bodies; the resources of
\* the entries strictly increase in traversal order (so none has two entries and
\* none is reordered); no entry belongs to a resource only the original manifest
\* holds; and the string returned is "[" , the entries joined by "," , "]",
\* which is "[]" when there is none.
C7_OrderPreserved ==
    /\ Len(emitted) = Len(patches) /\ Len(used) = Len(patches)
    /\ \A m \in DOMAIN emitted :
          /\ emitted[m] \in 1..Len(target) /\ emitted[m] <= i
          /\ patches[m] = CreatePatch(OriginalGet(original, target[emitted[m]]).Object,
                                      target[emitted[m]], used[m], "none").patch
          /\ target[emitted[m]].Name \in TargetNames
    /\ \A m, n \in DOMAIN emitted : m < n => emitted[m] < emitted[n]
    /\ \A o \in original :
          o.Name \notin TargetNames =>
              \A m \in DOMAIN emitted : target[emitted[m]].Name # o.Name
    /\ (pc \in {"returned", "printed", "fatal"} /\ i >= 1) =>
          LET n == Len(patches)
          IN  /\ Len(ret) = IF n = 0 THEN 2 ELSE 2 * n + 1
              /\ ret[1] = LBracket /\ ret[Len(ret)] = RBracket
              /\ \A m \in 1..n : ret[2 * m] = DocToken(patches[m])
              /\ \A m \in 1..(n - 1) : ret[2 * m + 1] = Comma
    /\ pc = "printed" => stdout = <<ret>>

C7_Witness ==
    /\ pc = "printed" /\ Len(patches) = 2 /\ patches[1] # patches[2]
    /\ Len(ret) = 5

\* C10 (as claimed): the live object of a target resource is looked up at most
\* once during the run, and exactly once when the visit has passed the resource.
C10_OneLookupPerResource ==
    \A k \in Visited :
        /\ Len(obs[k]) <= 1
        /\ (i > k => Len(obs[k]) = 1)

Called == upIn # NoUpgradeInput
LastRecord == history[Len(history)]
DeployedRecords == {k \in 1..Len(history) : history[k].Status = StatusDeployed}
StageError(st) ==
    IF st = "deps" THEN "ErrDependencies"
    ELSE IF st = "caps" THEN "ErrCapabilities"
    ELSE IF st = "values" THEN "ErrRenderValues"
    ELSE IF st = "render" THEN "ErrRender"
    ELSE None
\* r is the baseline: its manifest is the original returned, unless a later step failed.
SelectedAsBaseline(r) ==
    /\ upOut.current = r
    /\ upOut.err = StageError(upIn.stage)
    /\ upOut.original = IF upIn.stage = "none" THEN r.Manifest ELSE 0

\* C4: baseline selection of prepareUpgrade, for every release history: (1) no
\* record: the no-deployed-releases error; (2) the last record is deployed: it is
\* the baseline and Deployed is not looked up; (3) otherwise the most recently
\* deployed record is the baseline; (4) no deployed record and the last one failed
\* or superseded: the last record is the baseline; (5) no deployed record and
\* another status, or a lookup that fails otherwise: the error is returned. The
\* original manifest returned is the baseline's.
C4_BaselineSelection ==
    Called =>
        /\ upIn.lastFails => upOut.err = "ErrStorage" /\ upOut.deployedLookups = 0
        /\ (~upIn.lastFails /\ Len(history) = 0) =>
              upOut.err = "ErrNoDeployedReleases" /\ upOut.deployedLookups = 0
        /\ (~upIn.lastFails /\ Len(history) > 0) =>
              /\ LastRecord.Status = StatusDeployed =>
                    SelectedAsBaseline(LastRecord) /\ upOut.deployedLookups = 0
              /\ LastRecord.Status # StatusDeployed =>
                    /\ upOut.deployedLookups = 1
                    /\ upIn.deployedFails => upOut.err = "ErrStorage"
                    /\ (~upIn.deployedFails /\ DeployedRecords # {}) =>
                          SelectedAsBaseline(history[MaxOf(DeployedRecords)])
                    /\ (~upIn.deployedFails /\ DeployedRecords = {}
                          /\ LastRecord.Status \in {StatusFailed, StatusSuperseded}) =>
                          SelectedAsBaseline(LastRecord)
                    /\ (~upIn.deployedFails /\ DeployedRecords = {}
                          /\ LastRecord.Status \notin {StatusFailed, StatusSuperseded}) =>
                          upOut.err = "ErrNoDeployedReleases"
        /\ upOut.err # None => upOut.original = 0 /\ ~upOut.rendered

C4_Witness ==
    /\ Called /\ upOut.err = None
    /\ Len(history) = 3
    /\ history[1].Status = StatusDeployed /\ history[2].Status = StatusDeployed
    /\ history[3].Status = StatusFailed
    /\ upOut.original = history[2].Manifest

\* The baseline release: the record whose manifest prepareUpgrade returned.
Baseline == CHOOSE r \in Range(history) : r.Manifest = upOut.original

\* C5 (as claimed): when prepareUpgrade succeeds, the render context has the
\* baseline's namespace, upgrade mode, and the baseline's revision plus one.
C5_RevisionFromBaseline ==
    (Called /\ upOut.err = None) =>
        /\ upOut.options.Namespace = Baseline.Namespace
        /\ upOut.options.IsUpgrade
        /\ upOut.options.Revision = Baseline.Version + 1

\* C5 (amended): when prepareUpgrade succeeds, the render context has the
\* baseline's namespace, upgrade mode, and the revision of the most recent
\* release record plus one, which is the baseline's plus one only when the
\* baseline is the most recent record.
C5_RevisionFromLast ==
    (Called /\ upOut.err = None) =>
        /\ upOut.options.Namespace = Baseline.Namespace
        /\ upOut.options.IsUpgrade
        /\ upOut.options.Revision = LastRecord.Version + 1

C5_Witness ==
    /\ Called /\ upOut.err = None
    /\ Baseline # LastRecord
    /\ Baseline.Namespace # LastRecord.Namespace
    /\ upOut.options.Revision = Baseline.Version + 2

PatchCalled == pOut # NoPatchOutput
Schemaless == pIn.tgt.Versioned \in {"Unstructured", "CRD"}

\* C8: a resource is schemaless exactly when its versioned object is unstructured
\* or a CustomResourceDefinition; a schemaless resource gets a generic merge patch
\* that is the difference from old to new, the same whatever the live lookup
\* answered; every other resource gets a strategic merge patch.
C8_SchemalessIgnoresLive ==
    (PatchCalled /\ pOut.err = None) =>
        /\ Schemaless <=> pOut.ptype = MergePatchType
        /\ ~Schemaless <=> pOut.ptype = StrategicMergePatchType
        /\ Schemaless =>
              /\ \A x \in Fields :
                    pOut.patch[x] =
                        IF pIn.tgt.Object[x] = pIn.old[x] THEN Absent
                        ELSE IF pIn.tgt.Object[x] = Absent THEN Null
                        ELSE pIn.tgt.Object[x]
              /\ \A g \in GetResults \ {GetError} :
                    CreatePatch(pIn.old, pIn.tgt, g, pIn.fault) = pOut

C8_Witness ==
    /\ PatchCalled /\ pOut.err = None
    /\ pIn.tgt.Versioned = "CRD"
    /\ pIn.get.kind = "Found"
    /\ pIn.get.obj # pIn.old /\ pIn.get.obj # pIn.tgt.Object
    /\ pOut.patch # EmptyDoc

SchemaAwareEqualOldNew ==
    /\ PatchCalled /\ pOut.err = None
    /\ pIn.tgt.Versioned = "Typed"
    /\ pIn.get.kind = "Found"
    /\ pIn.old = pIn.tgt.Object

====
